---- MODULE Spec2Model ----
(***************************************************************************)
(* Habit tracker (src/habit_track.py): the SQLite tables users and habits, *)
(* the functions that read and write them, the streak and heatmap          *)
(* computations, and the Streamlit page that drives them from one session. *)
(***************************************************************************)
EXTENDS Integers, Sequences, FiniteSets, TLC

\* ------------------------------------------------------------------ bounds
\* The clock counts slots; a calendar day has SlotsPerDay slots.
MaxTime == 4
SlotsPerDay == 2
\* Most rows the habits table holds in the model.
MaxRows == 2

\* ------------------------------------------------------------ input values
Usernames == {"alice", "bob"}
Passwords == {"pw", "pw2"}
HabitNames == {"Read", "Run"}
NotesTexts == {"", "daily"}
\* What a text_input can hold: a value, or nothing typed.
Typed(S) == S \cup {""}
\* The radio of the Log Habit form.
LogStatuses == {"completed", "inprogress", "skipped"}
\* user_id values a caller may pass; the store checks no foreign key.
UserIds == 1..2
\* The value of a column no INSERT names (log_habit_progress gives no notes).
NULL == "<NULL>"
\* pandas' "not a time", the value errors="coerce" gives; below every timestamp.
NaT == -1
\* st.session_state has no user_id before the first login.
NoUserId == 0

VARIABLES
    users,      \* table users: rows [id, username, password], in rowid order
    habits,     \* table habits: rows [id, user_id, name, date, status, notes]
    now,        \* the wall clock read by datetime.datetime.now(), in slots
    session,    \* st.session_state: [logged_in, user_id, habits_data]
    out         \* what the last call returned / the last rerun rendered

vars == <<users, habits, now, session, out>>

\* --------------------------------------------------------------- the store
\* sqlite3's default adapter writes a datetime as ISO text: a date part and a
\* time-of-day part.
adapt_datetime(t) == <<t \div SlotsPerDay, t % SlotsPerDay>>

\* pd.to_datetime(..., errors="coerce") on one stored text: the timestamp it
\* denotes, NaT when it denotes none.
to_datetime(text) ==
    IF /\ Len(text) = 2
       /\ text[1] >= 0
       /\ text[2] \in 0..(SlotsPerDay - 1)
    THEN text[1] * SlotsPerDay + text[2]
    ELSE NaT

\* Timestamp.date(): the calendar day of a timestamp.
DateOf(ts) == ts \div SlotsPerDay

\* The users table without its UNIQUE constraint.
UniqueViolation_Off(tbl, username) == FALSE

\* username TEXT UNIQUE NOT NULL: an INSERT of a username some row holds
\* raises sqlite3.IntegrityError.
UniqueViolation(tbl, username) ==
    \E i \in DOMAIN tbl : tbl[i].username = username

\* INSERT INTO users (username, password): the row gets the next rowid.
InsertUser(tbl, username, password) ==
    Append(tbl, [id |-> Len(tbl) + 1, username |-> username, password |-> password])

\* register_user: [ok, tbl] - the value returned and the table afterwards.
RegisterResult(tbl, username, password) ==
    IF UniqueViolation(tbl, username)
    THEN [ok |-> FALSE, tbl |-> tbl]
    ELSE [ok |-> TRUE, tbl |-> InsertUser(tbl, username, password)]

\* The lookup by username alone.
UserMatches_NameOnly(row, username, password) == row.username = username

\* WHERE username=? AND password=?
UserMatches(row, username, password) ==
    row.username = username /\ row.password = password

\* SELECT * FROM users WHERE ...; fetchone(): the first matching row as a
\* sequence of one row, the empty sequence for None.
SelectUser(tbl, username, password) ==
    LET hits == SelectSeq(tbl, LAMBDA row : UserMatches(row, username, password))
    IN  IF hits = <<>> THEN <<>> ELSE <<Head(hits)>>

\* INSERT INTO habits (...): one row appended with the next rowid.
InsertHabit(tbl, user_id, name, date, status, notes) ==
    Append(tbl, [id |-> Len(tbl) + 1, user_id |-> user_id, name |-> name,
                 date |-> date, status |-> status, notes |-> notes])

\* add_habit's write.
AddHabitRows(tbl, user_id, habit_name, notes, t) ==
    InsertHabit(tbl, user_id, habit_name, adapt_datetime(t), "Started", notes)

\* Progress written as an UPDATE of the habit's latest row when it has one.
LogProgressRows_Update(tbl, user_id, habit_name, status, t) ==
    LET mine == {i \in DOMAIN tbl :
                    tbl[i].user_id = user_id /\ tbl[i].name = habit_name}
    IN  IF mine = {}
        THEN InsertHabit(tbl, user_id, habit_name, adapt_datetime(t), status, NULL)
        ELSE LET last == CHOOSE i \in mine : \A j \in mine : j <= i
             IN  [tbl EXCEPT ![last].status = status,
                             ![last].date = adapt_datetime(t)]

\* log_habit_progress's write.
LogProgressRows(tbl, user_id, habit_name, status, t) ==
    InsertHabit(tbl, user_id, habit_name, adapt_datetime(t), status, NULL)

\* The query without its WHERE clause.
SelectHabits_All(tbl, user_id) == tbl

\* SELECT * FROM habits WHERE user_id=?
SelectHabits(tbl, user_id) ==
    SelectSeq(tbl, LAMBDA row : row.user_id = user_id)

\* The conversion followed by a dropna on the date column.
CoerceDates_DropNaT(frame) ==
    SelectSeq([i \in DOMAIN frame |->
                  [frame[i] EXCEPT !.date = to_datetime(frame[i].date)]],
              LAMBDA row : row.date # NaT)

\* habits["date"] = pd.to_datetime(habits["date"], errors="coerce")
CoerceDates(frame) ==
    [i \in DOMAIN frame |-> [frame[i] EXCEPT !.date = to_datetime(frame[i].date)]]

\* load_user_habits: the DataFrame returned.
LoadFrame(tbl, user_id) == CoerceDates(SelectHabits(tbl, user_id))

\* ------------------------------------------------- streaks and heatmap
\* Series.unique() of a column, as a set.
Unique(frame, col) == {frame[i][col] : i \in DOMAIN frame}

\* Series.sort_values(): ascending, NaT last.
SortsBefore(a, b) == b = NaT \/ (a # NaT /\ a <= b)

RECURSIVE sort_values(_)
sort_values(s) ==
    IF s = <<>> THEN <<>>
    ELSE LET i == CHOOSE i \in DOMAIN s : \A j \in DOMAIN s : SortsBefore(s[i], s[j])
             rest == [k \in 1..(Len(s) - 1) |-> IF k < i THEN s[k] ELSE s[k + 1]]
         IN  <<s[i]>> \o sort_values(rest)

\* (date - prev_date).days: whole days of the difference of two timestamps.
DaysBetween(date, prev_date) == (date - prev_date) \div SlotsPerDay

\* prev_date and (date - prev_date).days == 1; prev is <<>> for None.
ContinuesStreak(prev, date) ==
    /\ prev # <<>>
    /\ prev[1] # NaT
    /\ date # NaT
    /\ DaysBetween(date, prev[1]) = 1

\* The loop over the sorted dates of one habit, from position k on.
RECURSIVE StreakLoop(_, _, _, _, _)
StreakLoop(dates, k, prev, current_streak, max_streak) ==
    IF k > Len(dates) THEN max_streak
    ELSE LET cur == IF ContinuesStreak(prev, dates[k]) THEN current_streak + 1 ELSE 1
             mx  == IF cur > max_streak THEN cur ELSE max_streak
         IN  StreakLoop(dates, k + 1, <<dates[k]>>, cur, mx)

\* The dates column of one habit's rows, in frame order.
DatesOf(habit_data, habit) ==
    LET rows == SelectSeq(habit_data, LAMBDA row : row.name = habit)
    IN  [i \in DOMAIN rows |-> rows[i].date]

calculate_streaks(habit_data) ==
    [habit \in Unique(habit_data, "name") |->
        StreakLoop(sort_values(DatesOf(habit_data, habit)), 1, <<>>, 0, 0)]

\* value_counts() of the status column.
plot_pie_chart(filtered_data) ==
    [s \in Unique(filtered_data, "status") |->
        Cardinality({i \in DOMAIN filtered_data : filtered_data[i].status = s})]

\* The sorted distinct values of a set of timestamps.
RECURSIVE SortedSeq(_)
SortedSeq(S) ==
    IF S = {} THEN <<>>
    ELSE LET m == CHOOSE x \in S : \A y \in S : x <= y
         IN  <<m>> \o SortedSeq(S \ {m})

\* pivot_table(index="date", columns="status", aggfunc="size", fill_value=0),
\* then the index relabelled by its calendar date: one row per value of the
\* date column (NaT keys are dropped), labelled with that value's day.
plot_heatmap(filtered_data) ==
    LET keys == SortedSeq(Unique(filtered_data, "date") \ {NaT})
        cols == Unique(filtered_data, "status")
    IN  [r \in DOMAIN keys |->
            [label |-> DateOf(keys[r]),
             cells |-> [s \in cols |->
                 Cardinality({i \in DOMAIN filtered_data :
                     /\ filtered_data[i].date = keys[r]
                     /\ filtered_data[i].status = s})]]]

\* The rows of the frame for one habit whose day lies in [start_date, end_date].
FilterFrame(frame, selected_habit, start_date, end_date) ==
    SelectSeq(frame, LAMBDA row :
        /\ row.name = selected_habit
        /\ row.date # NaT
        /\ DateOf(row.date) >= start_date
        /\ DateOf(row.date) <= end_date)

\* completed_logs and total_logs, the two terms of success_rate.
SuccessRate(filtered_data) ==
    <<Len(SelectSeq(filtered_data, LAMBDA row : row.status = "completed")),
      Len(filtered_data)>>

\* ------------------------------------------------------ state, first step
EmptySession == [logged_in |-> FALSE, user_id |-> NoUserId, habits_data |-> <<>>]

\* What a call or a rerun leaves to see: messages shown and the value
\* returned or rendered.
Rendered(op, msgs, val) == [op |-> op, msgs |-> msgs, val |-> val]

\* create_tables() on a fresh database file, and the session defaults.
create_tables ==
    /\ users = <<>>
    /\ habits = <<>>
    /\ now = 0
    /\ session = EmptySession
    /\ out = Rendered("create_tables", <<>>, <<>>)

\* Time passes between two operations.
Tick ==
    /\ now < MaxTime
    /\ now' = now + 1
    /\ UNCHANGED <<users, habits, session, out>>

\* ------------------------------------------------- the functions, called
register_user(username, password) ==
    LET r == RegisterResult(users, username, password)
    IN  /\ users' = r.tbl
        /\ out' = Rendered("register_user",
                           IF r.ok THEN <<>> ELSE <<"Registration failed">>, r.ok)
        /\ UNCHANGED <<habits, now, session>>

login_user(username, password) ==
    /\ out' = Rendered("login_user", <<>>, SelectUser(users, username, password))
    /\ UNCHANGED <<users, habits, now, session>>

load_user_habits(user_id) ==
    /\ out' = Rendered("load_user_habits", <<>>, LoadFrame(habits, user_id))
    /\ UNCHANGED <<users, habits, now, session>>

add_habit(user_id, habit_name, notes) ==
    /\ Len(habits) < MaxRows
    /\ habits' = AddHabitRows(habits, user_id, habit_name, notes, now)
    /\ out' = Rendered("add_habit", <<>>, <<>>)
    /\ UNCHANGED <<users, now, session>>

log_habit_progress(user_id, habit_name, status) ==
    /\ Len(habits) < MaxRows
    /\ habits' = LogProgressRows(habits, user_id, habit_name, status, now)
    /\ out' = Rendered("log_habit_progress", <<>>, <<>>)
    /\ UNCHANGED <<users, now, session>>

NextStore ==
    \/ \E u \in Usernames, p \in Passwords : register_user(u, p)
    \/ \E u \in Usernames, p \in Passwords : login_user(u, p)
    \/ \E id \in UserIds : load_user_habits(id)
    \/ \E id \in UserIds, n \in HabitNames, t \in NotesTexts : add_habit(id, n, t)
    \/ \E id \in UserIds, n \in HabitNames, s \in LogStatuses :
            log_habit_progress(id, n, s)

\* Every function that reads or writes the store, called directly with any
\* arguments.
SpecStore == create_tables /\ [][NextStore]_vars

\* ------------------------------------------------------ the Streamlit page
\* st.sidebar.button("Clear") is first drawn in the rerun the Register click
\* started; a button is True only in the rerun its own click starts.
ClearPressed == FALSE

\* The message shown when register_user returned False.
RegisterFailureMessage(password, confoirm_password) ==
    IF password = "" \/ confoirm_password = "" THEN "Password cannot be empty."
    ELSE IF password # confoirm_password THEN "Passwords do not match."
    ELSE IF ClearPressed THEN "Input fields cleared."
    ELSE "Username already exists or error occurred."

\* The Register form with the confirmation checked before the insert.
RegisterBranch_ConfirmFirst(username, password, confoirm_password) ==
    /\ IF username = "" \/ password = ""
       THEN /\ users' = users
            /\ out' = Rendered("Register",
                               <<"Username and password cannot be empty.">>, <<>>)
       ELSE IF confoirm_password = "" \/ password # confoirm_password
       THEN /\ users' = users
            /\ out' = Rendered("Register",
                     <<RegisterFailureMessage(password, confoirm_password)>>, <<>>)
       ELSE LET r == RegisterResult(users, username, password)
            IN  /\ users' = r.tbl
                /\ out' = Rendered("Register",
                     IF r.ok THEN <<"Registered successfully!">>
                     ELSE <<"Registration failed",
                            "Username already exists or error occurred.">>,
                     <<>>)
    /\ UNCHANGED <<habits, now, session>>

\* auth_option == "Register", the Register button pressed.
RegisterBranch(username, password, confoirm_password) ==
    /\ IF username = "" \/ password = ""
       THEN /\ users' = users
            /\ out' = Rendered("Register",
                               <<"Username and password cannot be empty.">>, <<>>)
       ELSE LET r == RegisterResult(users, username, password)
            IN  /\ users' = r.tbl
                /\ out' = Rendered("Register",
                     IF r.ok THEN <<"Registered successfully!">>
                     ELSE <<"Registration failed",
                            RegisterFailureMessage(password, confoirm_password)>>,
                     <<>>)
    /\ UNCHANGED <<habits, now, session>>

\* auth_option == "Login", the Login button pressed.
LoginBranch(username, password) ==
    /\ IF username = "" \/ password = ""
       THEN /\ session' = session
            /\ out' = Rendered("Login",
                               <<"Username and password cannot be empty.">>, <<>>)
       ELSE LET user == SelectUser(users, username, password)
            IN  IF user # <<>>
                THEN /\ session' = [logged_in |-> TRUE, user_id |-> user[1].id,
                                    habits_data |-> LoadFrame(habits, user[1].id)]
                     /\ out' = Rendered("Login", <<"Welcome back", username>>, <<>>)
                ELSE /\ session' = session
                     /\ out' = Rendered("Login", <<"Invalid credentials.">>, <<>>)
    /\ UNCHANGED <<users, habits, now>>

\* menu == "Add Habit", the Add Habit button pressed.
AddHabitMenu(new_habit, notes) ==
    /\ session.logged_in
    /\ IF new_habit # ""
       THEN /\ Len(habits) < MaxRows
            /\ habits' = AddHabitRows(habits, session.user_id, new_habit, notes, now)
            /\ session' = [session EXCEPT
                   !.habits_data = LoadFrame(habits', session.user_id)]
            /\ out' = Rendered("Add Habit", <<"Habit added successfully.">>, <<>>)
       ELSE /\ UNCHANGED <<habits, session>>
            /\ out' = Rendered("Add Habit", <<"Habit name cannot be empty.">>, <<>>)
    /\ UNCHANGED <<users, now>>

\* A Log Habit form that takes any habit name.
HabitChoices_Any(sess) == HabitNames

\* The options of the Log Habit selectbox.
HabitChoices(sess) == Unique(sess.habits_data, "name")

\* menu == "Log Habit": the form with its button pressed, or the warning.
LogHabitMenu ==
    /\ session.logged_in
    /\ IF session.habits_data # <<>>
       THEN \E selected_habit \in HabitChoices(session), log_status \in LogStatuses :
            /\ Len(habits) < MaxRows
            /\ habits' = LogProgressRows(habits, session.user_id, selected_habit,
                                         log_status, now)
            /\ session' = [session EXCEPT
                   !.habits_data = LoadFrame(habits', session.user_id)]
            /\ out' = Rendered("Log Habit",
                               <<"Progress logged", selected_habit, log_status>>, <<>>)
       ELSE /\ UNCHANGED <<habits, session>>
            /\ out' = Rendered("Log Habit", <<"No habits added yet.">>, <<>>)
    /\ UNCHANGED <<users, now>>

\* menu == "View Habits".
ViewHabitsMenu ==
    /\ session.logged_in
    /\ out' = IF session.habits_data = <<>>
              THEN Rendered("View Habits", <<"No habit logs available.">>, <<>>)
              ELSE Rendered("View Habits", <<>>, session.habits_data)
    /\ UNCHANGED <<users, habits, now, session>>

\* The days a date_input can be set to.
Days == 0..(MaxTime \div SlotsPerDay)

\* What the Visualize page draws for a non-empty selection.
Charts(habits_data, filtered_data, selected_habit) ==
    [habit |-> selected_habit,
     pie |-> plot_pie_chart(filtered_data),
     heatmap |-> plot_heatmap(filtered_data),
     success_rate |-> SuccessRate(filtered_data),
     streak |-> calculate_streaks(habits_data)[selected_habit]]

\* menu == "Visualize Habits" with data: a habit and a date range chosen.
VisualizeMenu(selected_habit, start_date, end_date) ==
    /\ session.logged_in
    /\ session.habits_data # <<>>
    /\ selected_habit \in Unique(session.habits_data, "name")
    /\ LET filtered_data == FilterFrame(session.habits_data, selected_habit,
                                        start_date, end_date)
       IN  out' = IF filtered_data = <<>>
                  THEN Rendered("Visualize Habits",
                      <<"No data available for the selected habit and date range.">>,
                      <<>>)
                  ELSE Rendered("Visualize Habits", <<>>,
                      Charts(session.habits_data, filtered_data, selected_habit))
    /\ UNCHANGED <<users, habits, now, session>>

\* menu == "Visualize Habits" without data.
VisualizeEmpty ==
    /\ session.logged_in
    /\ session.habits_data = <<>>
    /\ out' = Rendered("Visualize Habits",
                       <<"No habit data available for visualization.">>, <<>>)
    /\ UNCHANGED <<users, habits, now, session>>

Next ==
    \/ \E u \in Typed(Usernames), p \in Typed(Passwords), c \in Typed(Passwords) :
            RegisterBranch(u, p, c)
    \/ \E u \in Typed(Usernames), p \in Typed(Passwords) : LoginBranch(u, p)
    \/ \E n \in Typed(HabitNames), t \in NotesTexts : AddHabitMenu(n, t)
    \/ LogHabitMenu
    \/ ViewHabitsMenu
    \/ \E h \in HabitNames, s \in Days, e \in Days : VisualizeMenu(h, s, e)
    \/ VisualizeEmpty

\* One browser session driving the page, from a fresh database.
Spec == create_tables /\ [][Next]_vars

\* The authentication sidebar alone: registrations and logins in any order.
NextSidebar ==
    \/ \E u \in Typed(Usernames), p \in Typed(Passwords), c \in Typed(Passwords) :
            RegisterBranch(u, p, c)
    \/ \E u \in Typed(Usernames), p \in Typed(Passwords) : LoginBranch(u, p)

SpecSidebar == create_tables /\ [][NextSidebar]_vars

\* ----------------------------------------------- one user, over several days
\* The state after alice registered and logged in.
LoggedIn ==
    /\ users = InsertUser(<<>>, "alice", "pw")
    /\ habits = <<>>
    /\ now = 0
    /\ session = [logged_in |-> TRUE, user_id |-> 1, habits_data |-> <<>>]
    /\ out = Rendered("Login", <<"Welcome back", "alice">>, <<>>)

NextDays ==
    \/ Tick
    \/ \E n \in Typed(HabitNames), t \in NotesTexts : AddHabitMenu(n, t)
    \/ LogHabitMenu
    \/ ViewHabitsMenu
    \/ \E h \in HabitNames, s \in Days, e \in Days : VisualizeMenu(h, s, e)
    \/ VisualizeEmpty

SpecDays == LoggedIn /\ [][NextDays]_vars

\* -------------------------------------------- a database file found on disk
\* Texts a date column can hold: what the adapter writes, and texts that
\* denote no time.
StoredTexts ==
    {adapt_datetime(t) : t \in 0..1} \cup {<<>>, <<0, SlotsPerDay>>}

StoredRows ==
    [id : {0}, user_id : UserIds, name : {"Read"}, date : StoredTexts,
     status : {"Started", "completed"}, notes : {NULL}]

\* Number the rows of a table by position, as AUTOINCREMENT does.
Renumber(tbl) == [i \in DOMAIN tbl |-> [tbl[i] EXCEPT !.id = i]]

\* habit_tracker.db exists already: CREATE TABLE IF NOT EXISTS keeps its rows.
ExistingFile ==
    /\ users = <<>>
    /\ \E n \in 0..MaxRows : \E tbl \in [1..n -> StoredRows] : habits = Renumber(tbl)
    /\ now = 0
    /\ session = EmptySession
    /\ out = Rendered("create_tables", <<>>, <<>>)

NextLoad == \E id \in UserIds : load_user_habits(id)

SpecLoad == ExistingFile /\ [][NextLoad]_vars

\* ===================================================================
\* Properties
\* ===================================================================
Taken(u) == \E i \in DOMAIN users : users[i].username = u

\* C1: a register_user call for a username that is already stored returns
\* the failure result and leaves the users table as it was; a call for a free
\* username appends one row with that username and password; and no step
\* changes or removes a stored user row (so the first password stays).
C1_DuplicateRegisterFails ==
    [][/\ \A i \in DOMAIN users : i \in DOMAIN users' /\ users'[i] = users[i]
       /\ \A u \in Usernames, p \in Passwords :
            register_user(u, p) =>
                IF Taken(u)
                THEN out'.val = FALSE /\ users' = users
                ELSE /\ out'.val = TRUE
                     /\ users' = Append(users, [id |-> Len(users) + 1,
                                                username |-> u, password |-> p])]_vars

\* A second register for a stored username was refused.
C1_Witness ==
    /\ out.op = "register_user"
    /\ out.val = FALSE
    /\ users # <<>>

\* C2: pressing Login with (u, p) binds the session to a user's id and sets
\* logged_in exactly when some stored user has username u and password p;
\* otherwise (also for a stored username with another password) the session
\* is left as it was and no welcome is shown.
C2_LoginIffExactMatch ==
    [][out'.op = "Login" =>
       \A u \in Typed(Usernames), p \in Typed(Passwords) :
         LoginBranch(u, p) =>
            IF \E i \in DOMAIN users : users[i].username = u /\ users[i].password = p
            THEN /\ \E i \in DOMAIN users :
                      /\ users[i].username = u /\ users[i].password = p
                      /\ session'.user_id = users[i].id
                 /\ session'.logged_in
                 /\ out'.msgs = <<"Welcome back", u>>
            ELSE /\ session' = session
                 /\ out'.msgs \in {<<"Invalid credentials.">>,
                                   <<"Username and password cannot be empty.">>}]_vars

\* Every username is registered, nobody is logged in, and a login was refused:
\* the attempt named a stored user with another password.
C2_Witness ==
    /\ \A u \in Usernames : Taken(u)
    /\ out.op = "Login"
    /\ out.msgs = <<"Invalid credentials.">>
    /\ ~session.logged_in

\* The rows of tbl with this user and name.
Entries(tbl, id, n) == {i \in DOMAIN tbl : tbl[i].user_id = id /\ tbl[i].name = n}

\* C3: after add_habit(id, n, t) for a user with no entry named n, loading
\* that user's habits gives exactly one entry named n, with status "Started"
\* and notes t; and a load for a user returns only rows of that user.
C3_AddThenLoadRoundTrip ==
    [][/\ \A id \in UserIds, n \in HabitNames, t \in NotesTexts :
            (add_habit(id, n, t) /\ Entries(habits, id, n) = {}) =>
                LET f == LoadFrame(habits', id)
                    named == {i \in DOMAIN f : f[i].name = n}
                IN  /\ Cardinality(named) = 1
                    /\ \A i \in named : f[i].status = "Started" /\ f[i].notes = t
       /\ \A id \in UserIds :
            load_user_habits(id) =>
                /\ \A i \in DOMAIN out'.val : out'.val[i].user_id = id
                /\ {out'.val[i].id : i \in DOMAIN out'.val}
                       = {habits[j].id : j \in {k \in DOMAIN habits :
                                                     habits[k].user_id = id}}]_vars

\* Two users hold an entry of the same name and a load returned rows.
C3_Witness ==
    /\ out.op = "load_user_habits"
    /\ out.val # <<>>
    /\ \E i, j \in DOMAIN habits :
          habits[i].user_id # habits[j].user_id /\ habits[i].name = habits[j].name

\* C6: no step changes or removes a stored habits row; add_habit and
\* log_habit_progress (for any name) each append exactly one row, which a
\* load for that user then returns.
C6_AppendOnly ==
    [][/\ \A i \in DOMAIN habits : i \in DOMAIN habits' /\ habits'[i] = habits[i]
       /\ \A id \in UserIds, n \in HabitNames, t \in NotesTexts :
            add_habit(id, n, t) =>
                /\ Len(habits') = Len(habits) + 1
                /\ \E k \in DOMAIN LoadFrame(habits', id) :
                      LET row == LoadFrame(habits', id)[k]
                      IN  row.id = Len(habits') /\ row.name = n /\ row.status = "Started"
       /\ \A id \in UserIds, n \in HabitNames, st \in LogStatuses :
            log_habit_progress(id, n, st) =>
                /\ Len(habits') = Len(habits) + 1
                /\ \E k \in DOMAIN LoadFrame(habits', id) :
                      LET row == LoadFrame(habits', id)[k]
                      IN  row.id = Len(habits') /\ row.name = n /\ row.status = st]_vars

\* Progress was logged for a name the user never added, after another row.
C6_Witness ==
    /\ Len(habits) >= 2
    /\ \E i \in DOMAIN habits :
          /\ i > 1
          /\ habits[i].status \in LogStatuses
          /\ \A j \in DOMAIN habits :
                ~(habits[j].user_id = habits[i].user_id /\ habits[j].name = habits[i].name
                  /\ habits[j].status = "Started")

\* A stored date text that denotes a time.
Parsable(text) == Len(text) = 2 /\ text[1] >= 0 /\ text[2] >= 0 /\ text[2] < SlotsPerDay

C9_LoggedEntriesWereStarted ==
    \A i \in DOMAIN habits :
        habits[i].status \in LogStatuses =>
            \E j \in 1..(i - 1) :
                /\ habits[j].user_id = habits[i].user_id
                /\ habits[j].name = habits[i].name
                /\ habits[j].status = "Started"

\* Progress was logged by one user, and the session now belongs to another.
C9_Witness ==
    /\ Len(users) = 2
    /\ session.logged_in
    /\ \E i \in DOMAIN habits :
          habits[i].status \in LogStatuses /\ habits[i].user_id # session.user_id

\* C10: pressing Register with empty username or password attempts no
\* insert; with both non-empty and the username free a user is created
\* whatever the confirm-password field holds; and "Password cannot be
\* empty." / "Passwords do not match." appear only after the insert failed.
C10_InsertBeforeConfirm ==
    [][out'.op = "Register" =>
       \A u \in Typed(Usernames), p \in Typed(Passwords), c \in Typed(Passwords) :
         RegisterBranch(u, p, c) =>
            /\ (u = "" \/ p = "") =>
                  /\ users' = users
                  /\ out'.msgs = <<"Username and password cannot be empty.">>
            /\ (u # "" /\ p # "" /\ ~Taken(u)) =>
                  /\ users' = Append(users, [id |-> Len(users) + 1,
                                             username |-> u, password |-> p])
                  /\ out'.msgs = <<"Registered successfully!">>
            /\ (\E k \in DOMAIN out'.msgs :
                    out'.msgs[k] \in {"Password cannot be empty.",
                                      "Passwords do not match."}) =>
                  /\ u # "" /\ p # "" /\ Taken(u)
                  /\ users' = users
                  /\ out'.msgs[1] = "Registration failed"]_vars

\* The confirm-password complaint was shown, after a failed insert.
C10_Witness ==
    /\ out.op = "Register"
    /\ out.msgs = <<"Registration failed", "Passwords do not match.">>
    /\ users # <<>>

\* ---- streaks and heatmap
\* The timestamps of one habit in the session's data, ascending.
HabitDates(h) == sort_values(DatesOf(session.habits_data, h))

ChartsShown == out.op = "Visualize Habits" /\ out.msgs = <<>>

\* C4: when the sorted timestamps of the shown habit fall on calendar days
\* that are each one day after the previous one, its streak is the number of
\* entries.
C4_ConsecutiveDaysStreak ==
    ChartsShown =>
        LET d == HabitDates(out.val.habit)
        IN  (\A k \in 1..(Len(d) - 1) : DateOf(d[k + 1]) = DateOf(d[k]) + 1)
                => out.val.streak = Len(d)

\* The longest run of entries each exactly one calendar day after the
\* previous one.
RECURSIVE CalendarRun(_, _, _, _)
CalendarRun(d, k, cur, best) ==
    IF k > Len(d) THEN best
    ELSE LET c == IF k > 1 /\ DateOf(d[k]) = DateOf(d[k - 1]) + 1 THEN cur + 1 ELSE 1
         IN  CalendarRun(d, k + 1, c, IF c > best THEN c ELSE best)

\* C5: the streak of the shown habit is the length of the longest run of its
\* sorted entries in which each calendar day is exactly one day after the
\* previous entry's; any other gap restarts the count at 1.
C5_StreakIsLongestCalendarRun ==
    ChartsShown => out.val.streak = CalendarRun(HabitDates(out.val.habit), 1, 0, 0)

\* C8: the heatmap table has exactly one row per distinct calendar date of
\* the filtered entries, each cell counts the entries of that date and status
\* (0 when there is none), so that the cells sum to the number of filtered
\* entries.
C8_OneRowPerDate ==
    [][\A h \in HabitNames, s \in Days, e \in Days :
         (VisualizeMenu(h, s, e) /\ out'.msgs = <<>>) =>
            LET f == SelectSeq(session.habits_data, LAMBDA row :
                        /\ row.name = h
                        /\ DateOf(row.date) >= s /\ DateOf(row.date) <= e)
                dates == {DateOf(f[i].date) : i \in DOMAIN f}
                hm == out'.val.heatmap
            IN  /\ Len(hm) = Cardinality(dates)
                /\ {hm[r].label : r \in DOMAIN hm} = dates
                /\ \A r \in DOMAIN hm : \A st \in DOMAIN hm[r].cells :
                      hm[r].cells[st] = Cardinality({i \in DOMAIN f :
                          DateOf(f[i].date) = hm[r].label /\ f[i].status = st})]_vars

====
